---- MODULE Spec2Model ----
(***************************************************************************)
(* OYHustle: the jobs/clients repositories over AsyncStorage, the jobs     *)
(* slice that mirrors the stored jobs in memory (async thunks and their    *)
(* reducers, and the cache-only reducers), and the financial figures the   *)
(* job detail view and the payment flow derive from a job.                 *)
(***************************************************************************)
EXTENDS FiniteSets, Integers, Sequences, TLC

(* ------------------------------ bounds --------------------------------- *)

\* Longest collection, stored or in memory: no intent that would make one
\* longer is started.
MaxLen == 2

\* Async jobs actions that may be in flight at the same time.
MaxInFlight == 2

(* ------------------------------ values --------------------------------- *)

JobIdSet == {"j1", "j2"}
JobNameSet == {"A", "B"}

\* A Job, cut down to its identity and one editable field.
JobT == [id : JobIdSet, jobName : JobNameSet]

ClientIdSet == {"c1", "c2"}
FullNameSet == {"Ann", "Bob"}

\* A Client, cut down to its identity and one editable field.
ClientT == [id : ClientIdSet, fullName : FullNameSet]

SeqsUpTo(S, n) == UNION {[1..k -> S] : k \in 0..n}

\* The collections of jobs a caller may hold or pass.
JobLists == SeqsUpTo(JobT, MaxLen)

\* The value of state.error when no error is recorded (null).
Null == "null"

\* An optional value: present (one value) or absent.
Some(v) == <<v>>
None == <<>>

(* --------------------------- AsyncStorage ------------------------------ *)

\* AsyncStorage.getItem of a key that was never set.
NullItem == [present |-> FALSE, text |-> <<>>]

\* The member names JSON.stringify may meet, in the order it writes them
\* (the order the properties were created in).
MemberNames ==
    <<"id", "jobName", "fullName", "startDate", "createdDate", "status",
      "expenses", "payments">>

\* JSON.stringify of one record: its members, each a name with its value.
StringifyObject(r) ==
    LET names == SelectSeq(MemberNames, LAMBDA k : k \in DOMAIN r)
    IN  [i \in 1..Len(names) |-> <<names[i], r[names[i]]>>]

\* JSON.parse of one object: the record that has these members.
ParseObject(members) ==
    [k \in {members[i][1] : i \in 1..Len(members)} |->
        members[CHOOSE i \in 1..Len(members) : members[i][1] = k][2]]

\* JSON.stringify of a collection: the string kept under the key, an array
\* of objects in the collection's order.
JSONStringify(list) ==
    [present |-> TRUE, text |-> [i \in 1..Len(list) |-> StringifyObject(list[i])]]

\* (mutant of JSONParse) the array read back in the reverse order.
JSONParseReversed(item) ==
    [i \in 1..Len(item.text) |-> ParseObject(item.text[Len(item.text) + 1 - i])]

\* JSON.parse of a stored string.
JSONParse(item) == [i \in 1..Len(item.text) |-> ParseObject(item.text[i])]

\* The message of a rejected AsyncStorage.setItem.
SetItemError == "AsyncStorage setItem failed"

\* getJobs / getClients: the parsed collection, [] for a missing key, and []
\* as well when getItem or JSON.parse throws (readOk = FALSE): the catch
\* block logs the error and returns [].
GetList(item, readOk) ==
    IF readOk /\ item.present THEN JSONParse(item) ELSE <<>>

\* A failed setItem writes nothing: the key keeps its previous string.
SetItemRejected(item, list) == item

\* A successful setItem replaces the whole string under the key.
SetItemResolved(item, list) == JSONStringify(list)

(* ----------------------- sequence helpers ------------------------------ *)

HasId(list, id) == \E i \in 1..Len(list) : list[i].id = id

NoDupIds(list) ==
    \A i, k \in 1..Len(list) : list[i].id = list[k].id => i = k

\* Array.prototype.filter((x) => x.id !== id)
RECURSIVE FilterOutId(_, _)
FilterOutId(list, id) ==
    IF list = <<>> THEN <<>>
    ELSE IF Head(list).id = id THEN FilterOutId(Tail(list), id)
    ELSE <<Head(list)>> \o FilterOutId(Tail(list), id)

\* Array.prototype.map((x) => x.id === e.id ? e : x)
MapReplace(list, e) ==
    [i \in 1..Len(list) |-> IF list[i].id = e.id THEN e ELSE list[i]]

\* Array.prototype.findIndex((x) => x.id === id), 0 standing for -1.
FindIndex(list, id) ==
    IF HasId(list, id)
    THEN CHOOSE i \in 1..Len(list) :
            /\ list[i].id = id
            /\ \A k \in 1..(i - 1) : list[k].id # id
    ELSE 0

\* The collections of clients with distinct ids.
ClientLists == {l \in SeqsUpTo(ClientT, MaxLen) : NoDupIds(l)}

(* ------------------- repository functions (pure part) ------------------ *)

JobNotFound(id) == "Job with ID " \o id \o " not found"
ClientNotFound(id) == "Client with ID " \o id \o " not found"

\* What a repository function does with the collection it has read: either it
\* throws (ok = FALSE, msg) or it goes on to write `list`.
Throw(msg) == [ok |-> FALSE, msg |-> msg, list |-> <<>>]
WriteList(list) == [ok |-> TRUE, msg |-> "", list |-> list]

SaveJobPlan(list, job) == WriteList(Append(list, job))

\* (mutant of UpdateJobPlan) an update that moves the record to the end, as
\* the update of a client does.
UpdateJobPlanMoved(list, job) ==
    IF FindIndex(list, job.id) = 0
    THEN Throw(JobNotFound(job.id))
    ELSE WriteList(Append(FilterOutId(list, job.id), job))

UpdateJobPlan(list, job) ==
    IF FindIndex(list, job.id) = 0
    THEN Throw(JobNotFound(job.id))
    ELSE WriteList(MapReplace(list, job))

\* (mutant of DeleteJobPlan) a delete that skips the existence check.
DeleteJobPlanUnchecked(list, job) == WriteList(FilterOutId(list, job.id))

DeleteJobPlan(list, job) ==
    IF ~HasId(list, job.id)
    THEN Throw(JobNotFound(job.id))
    ELSE WriteList(FilterOutId(list, job.id))

\* (mutant of SaveClientPlan) a create that appends without filtering.
SaveClientPlanNoDedup(list, client) == WriteList(Append(list, client))

SaveClientPlan(list, client) ==
    WriteList(Append(FilterOutId(list, client.id), client))

UpdateClientPlan(list, client) ==
    IF FindIndex(list, client.id) = 0
    THEN Throw(ClientNotFound(client.id))
    ELSE WriteList(Append(FilterOutId(list, client.id), client))

DeleteClientPlan(list, client) ==
    IF ~HasId(list, client.id)
    THEN Throw(ClientNotFound(client.id))
    ELSE WriteList(FilterOutId(list, client.id))

JobFns == {"getJobs", "saveJob", "updateJob", "deleteJob", "setJobs"}
ClientFns ==
    {"getClients", "saveClient", "updateClient", "deleteClient", "setClients"}

Plan(fn, list, arg) ==
    CASE fn \in {"getJobs", "getClients"} -> WriteList(list)
      [] fn = "saveJob" -> SaveJobPlan(list, arg)
      [] fn = "updateJob" -> UpdateJobPlan(list, arg)
      [] fn = "deleteJob" -> DeleteJobPlan(list, arg)
      [] fn = "saveClient" -> SaveClientPlan(list, arg)
      [] fn = "updateClient" -> UpdateClientPlan(list, arg)
      [] fn = "deleteClient" -> DeleteClientPlan(list, arg)

(* ------------------------------ state ---------------------------------- *)

VARIABLES
    jobsItem,     \* AsyncStorage's string under JOBS_KEY
    clientsItem,  \* AsyncStorage's string under CLIENTS_KEY
    jobs,         \* JobsState.jobs
    loading,      \* JobsState.loading
    error,        \* JobsState.error
    filter,       \* JobsState.filter
    ops,          \* the calls in flight, one per slot
    finJob,       \* the job a screen was opened with (route.params.job)
    figures,      \* the figures the screen last derived from it
    payCall,      \* the last PaymentService.processPayment call and its result
    trendCall,    \* the last BudgetAnalytics call and its result
    clock,        \* the wall clock new Date() reads
    seedLog,      \* the stored collections as each completed seeding left them
    replaced,     \* the replaceAll that returned last, nothing called since
    intent,       \* the cache-only intent dispatched last, where it is recorded
    dispatched    \* the async jobs actions dispatched so far, where counted

vars ==
    <<jobsItem, clientsItem, jobs, loading, error, filter, ops, finJob, figures,
      payCall, trendCall, clock, seedLog, replaced, intent, dispatched>>

\* The variables of the payment service, the analytics and the seeding, and
\* the count of dispatches.
svcVars == <<payCall, trendCall, clock, seedLog, dispatched>>

\* The variables of the screens' figures.
finVars == <<finJob, figures>>

\* The variables of the store, the jobs slice and the calls in flight.
coreVars ==
    <<jobsItem, clientsItem, jobs, loading, error, filter, ops, replaced,
      intent>>

Slots == 1..MaxInFlight

Thunks == {"fetchJobs", "createJob", "modifyJob", "removeJob"}

AnyJob == [id |-> "j1", jobName |-> "A"]

\* A free slot.
Idle ==
    [kind |-> "none", fn |-> "none", arg |-> AnyJob, pc |-> "idle",
     read |-> <<>>, list |-> <<>>, outcome |-> "none", msg |-> "",
     before |-> NullItem, faulted |-> FALSE]

InFlight == {s \in Slots : ops[s].pc # "idle"}

StoredJobs == GetList(jobsItem, TRUE)
StoredClients == GetList(clientsItem, TRUE)

ItemOf(fn) == IF fn \in JobFns THEN jobsItem ELSE clientsItem

\* The createJob actions in flight: each will push a job when fulfilled.
PendingPushes ==
    Cardinality({s \in Slots : ops[s].kind = "createJob" /\ ops[s].pc # "idle"})

\* Bound on the stored collection: a storage call of modifyJob's updateJob is
\* let fail, which makes the fallback append, only while the store has room.
MayFail(o) ==
    (o.kind = "modifyJob" /\ o.fn = "updateJob") => Len(StoredJobs) < MaxLen

(* --------------------- the figures of a job's screens ------------------ *)

\* Most expenses and most payments of the job a screen is opened with.
MaxExpenses == 2
MaxPayments == 2

QuoteSet == {500}
ExpenseAmountSet == {30, 50}
PaymentAmountSet == {100, 530}
JobStatusSet == {"Quoted", "Accepted", "In-Progress", "Completed", "Cancelled"}
PaymentStatusSet == {"pending", "completed", "failed", "cancelled"}

ExpenseT == [amount : ExpenseAmountSet, isReimbursable : BOOLEAN]
PaymentT == [amount : PaymentAmountSet, status : PaymentStatusSet]

\* Array.prototype.reduce((sum, x) => sum + x.amount, 0)
RECURSIVE SumAmount(_)
SumAmount(list) ==
    IF list = <<>> THEN 0
    ELSE SumAmount(SubSeq(list, 1, Len(list) - 1)) + list[Len(list)].amount

\* (mutant of MathMax0) the difference taken without the floor at 0.
MathMaxDropped(x) == x

\* Math.max(x, 0)
MathMax0(x) == IF x > 0 THEN x ELSE 0

\* JobDetailScreen.calculateTotalExpenses
CalculateTotalExpenses(job) == SumAmount(job.expenses)

\* (mutant of CalculateProfit) every expense, reimbursable or not, is taken
\* off the quote.
CalculateProfitAllExpenses(job) == job.quote - SumAmount(job.expenses)

\* JobDetailScreen.calculateProfit
CalculateProfit(job) ==
    job.quote -
    SumAmount(SelectSeq(job.expenses, LAMBDA e : ~e.isReimbursable))

\* JobDetailScreen.calculateReimbursableTotal, and the same expression of
\* PaymentScreen.
CalculateReimbursableTotal(job) ==
    SumAmount(SelectSeq(job.expenses, LAMBDA e : e.isReimbursable))

\* JobDetailScreen.calculateTotalPaid
CalculateTotalPaid(job) ==
    SumAmount(SelectSeq(job.payments,
                        LAMBDA p : p.status # "failed" /\ p.status # "cancelled"))

\* JobDetailScreen.calculateAmountOwed
CalculateAmountOwed(job) ==
    LET totalDue == job.quote + CalculateReimbursableTotal(job)
        totalPaid == CalculateTotalPaid(job)
    IN  MathMax0(totalDue - totalPaid)

\* PaymentScreen: (payments || []).reduce((sum, p) => sum + p.amount, 0)
PaymentScreenTotalPaid(payments) == SumAmount(payments)

\* PaymentScreen: Math.max(totalDue - totalPaid, 0)
PaymentScreenAmountOwed(job, payments) ==
    LET totalDue == job.quote + CalculateReimbursableTotal(job)
        totalPaid == PaymentScreenTotalPaid(payments)
    IN  MathMax0(totalDue - totalPaid)

\* No screen is open.
NoScreenJob == [quote |-> 0, status |-> "Quoted", expenses |-> <<>>, payments |-> <<>>]

NoFigures ==
    [screen |-> "none", totalExpenses |-> 0, profit |-> 0,
     reimbursableTotal |-> 0, totalDue |-> 0, totalPaid |-> 0, amountOwed |-> 0]

\* No processPayment and no calculateTrend call was made yet.
NoPayCall == [made |-> FALSE]
NoTrendCall == [made |-> FALSE]

\* The cache-only intents are not recorded; none was dispatched yet.
IntentsOff == [type |-> "off"]
NoIntent == [type |-> "none"]

\* The payment service and the analytics were not called, nothing was seeded.
ServicesIdle ==
    /\ payCall = NoPayCall
    /\ trendCall = NoTrendCall
    /\ clock = 0
    /\ seedLog = <<>>
    /\ replaced = None
    /\ intent = IntentsOff
    /\ dispatched = 0

(* ------------------------- jobs slice reducers ------------------------- *)

\* <thunk>.pending: loading = true, error = null.
PendingFlags == [loading |-> TRUE, error |-> Null]

\* <thunk>.fulfilled: loading = false, error = null.
FulfilledFlags == [loading |-> FALSE, error |-> Null]

\* action.error.message || '<default text>'
OrDefault(msg, dflt) == IF msg = "" THEN dflt ELSE msg

DefaultText(kind) ==
    CASE kind = "fetchJobs" -> "Failed to fetch jobs"
      [] kind = "createJob" -> "Failed to create job"
      [] kind = "modifyJob" -> "Failed to update job"
      [] kind = "removeJob" -> "Failed to delete job"

\* (mutant of RejectedFlags) a rejected reducer that forgets to clear loading.
RejectedFlagsStillLoading(kind, msg) ==
    [loading |-> TRUE, error |-> IF msg = "" THEN "Failed" ELSE msg]

\* <thunk>.rejected: loading = false, error = the message or the default text.
RejectedFlags(kind, msg) ==
    [loading |-> FALSE, error |-> OrDefault(msg, DefaultText(kind))]

\* (mutant of RejectedJobs) a rejected reducer that resets the list.
RejectedJobsCleared(js) == <<>>

\* <thunk>.rejected does not assign state.jobs.
RejectedJobs(js) == js

\* fetchJobs.fulfilled: state.jobs = action.payload
FetchJobsFulfilled(js, payload) == payload

\* createJob.fulfilled: state.jobs.push(action.payload)
CreateJobFulfilled(js, payload) == Append(js, payload)

\* modifyJob.fulfilled and the updateJob reducer: findIndex, then assign at
\* the index when it is not -1.
\* (mutant of ReplaceAtIndex) a reducer that adds the job when no job has the
\* id.
ReplaceOrAppend(js, payload) ==
    IF HasId(js, payload.id) THEN MapReplace(js, payload) ELSE Append(js, payload)

ReplaceAtIndex(js, payload) ==
    LET index == FindIndex(js, payload.id)
    IN  IF index # 0 THEN [js EXCEPT ![index] = payload] ELSE js

\* (mutant of ModifyJobFulfilled) a reducer that replaces every record with
\* the id, as the stored collection's map does.
ModifyJobFulfilledAll(js, payload) == MapReplace(js, payload)

ModifyJobFulfilled(js, payload) == ReplaceAtIndex(js, payload)

\* removeJob.fulfilled and the deleteJob reducer: filter the id out.
RemoveJobFulfilled(js, id) == FilterOutId(js, id)

FulfilledJobs(kind, js, o) ==
    CASE kind = "fetchJobs" -> FetchJobsFulfilled(js, o.list)
      [] kind = "createJob" -> CreateJobFulfilled(js, o.arg)
      [] kind = "modifyJob" -> ModifyJobFulfilled(js, o.arg)
      [] kind = "removeJob" -> RemoveJobFulfilled(js, o.arg.id)

(* ----------------------------- actions --------------------------------- *)

\* Starting a call in slot s (the lowest free one): the fields of the call.
Started(kind, fn, arg, pc, list, item) ==
    [kind |-> kind, fn |-> fn, arg |-> arg, pc |-> pc, read |-> <<>>,
     list |-> list, outcome |-> "none", msg |-> "", before |-> item,
     faulted |-> FALSE]

FreeSlot(s) ==
    /\ ops[s].pc = "idle"
    /\ \A t \in Slots : t < s => ops[t].pc # "idle"

Start(s, o) == ops' = [ops EXCEPT ![s] = o]

\* dispatch(thunk(arg)): createAsyncThunk dispatches pending, then starts the
\* payload creator, which runs up to its first await of AsyncStorage.
ThunkPending(s, kind, fn, arg) ==
    /\ FreeSlot(s)
    /\ Start(s, Started(kind, fn, arg, "read", <<>>, jobsItem))
    /\ loading' = PendingFlags.loading
    /\ error' = PendingFlags.error
    /\ UNCHANGED <<jobsItem, clientsItem, jobs, filter, finVars, payCall, trendCall,
                   clock, seedLog, replaced, intent>>

DispatchThunk(s, kind, fn, arg) ==
    /\ ThunkPending(s, kind, fn, arg)
    /\ UNCHANGED dispatched

DispatchFetchJobs ==
    \E s \in Slots : DispatchThunk(s, "fetchJobs", "getJobs", AnyJob)

DispatchCreateJob ==
    \E s \in Slots, job \in JobT :
        /\ Len(jobs) + PendingPushes < MaxLen
        /\ Len(StoredJobs) < MaxLen
        /\ DispatchThunk(s, "createJob", "saveJob", job)

DispatchModifyJob ==
    \E s \in Slots, job \in JobT :
        /\ HasId(StoredJobs, job.id) \/ Len(StoredJobs) < MaxLen
        /\ DispatchThunk(s, "modifyJob", "updateJob", job)

DispatchRemoveJob ==
    \E s \in Slots, id \in JobIdSet :
        DispatchThunk(s, "removeJob", "deleteJob", [AnyJob EXCEPT !.id = id])

\* (mutant of AfterRead) modifyJob without its catch: what updateJob throws
\* rejects the thunk.
AfterReadNoFallback(o, readOk) ==
    LET list == GetList(ItemOf(o.fn), readOk)
        p == Plan(o.fn, list, o.arg)
        f == o.faulted \/ ~readOk
    IN  IF ~p.ok
        THEN [o EXCEPT !.pc = "settle", !.outcome = "rejected", !.read = list,
                       !.msg = p.msg, !.faulted = f]
        ELSE IF o.fn \in {"getJobs", "getClients"}
             THEN [o EXCEPT !.pc = "settle", !.outcome = "fulfilled",
                            !.read = list, !.list = p.list, !.faulted = f]
             ELSE [o EXCEPT !.pc = "write", !.read = list, !.list = p.list,
                            !.faulted = f]

\* The call's getJobs/getClients returns (read: the collection it returned,
\* the function's local jobs or clients) and the function runs on to its
\* setItem, or throws. modifyJob catches what updateJob throws and calls
\* saveJob instead.
AfterRead(o, readOk) ==
    LET list == GetList(ItemOf(o.fn), readOk)
        p == Plan(o.fn, list, o.arg)
        f == o.faulted \/ ~readOk
    IN  IF ~p.ok
        THEN IF o.kind = "modifyJob" /\ o.fn = "updateJob"
             THEN [o EXCEPT !.fn = "saveJob", !.pc = "read", !.read = list,
                            !.faulted = f]
             ELSE [o EXCEPT !.pc = "settle", !.outcome = "rejected",
                            !.read = list, !.msg = p.msg, !.faulted = f]
        ELSE IF o.fn \in {"getJobs", "getClients"}
             THEN [o EXCEPT !.pc = "settle", !.outcome = "fulfilled",
                            !.read = list, !.list = p.list, !.faulted = f]
             ELSE [o EXCEPT !.pc = "write", !.read = list, !.list = p.list,
                            !.faulted = f]

\* The read of the call in slot s returns.
ReadReturns(s, readOk) ==
    /\ ops[s].pc = "read"
    /\ readOk \/ MayFail(ops[s])
    /\ ops' = [ops EXCEPT ![s] = AfterRead(ops[s], readOk)]
    /\ UNCHANGED <<jobsItem, clientsItem, jobs, loading, error, filter, finVars, svcVars, replaced, intent>>

RepoRead == \E s \in Slots, readOk \in BOOLEAN : ReadReturns(s, readOk)

\* (mutant of AfterWrite) a modifyJob that answers a failed write by trying
\* its other repository call again, as often as the write fails.
AfterWriteRetried(o, writeOk) ==
    IF writeOk
    THEN [o EXCEPT !.pc = "settle", !.outcome = "fulfilled"]
    ELSE IF o.kind = "modifyJob"
         THEN [o EXCEPT !.fn = IF @ = "updateJob" THEN "saveJob" ELSE "updateJob",
                        !.pc = "read", !.faulted = TRUE]
         ELSE [o EXCEPT !.pc = "settle", !.outcome = "rejected",
                        !.msg = SetItemError, !.faulted = TRUE]

\* The call's setItem resolves or rejects.
AfterWrite(o, writeOk) ==
    IF writeOk
    THEN [o EXCEPT !.pc = "settle", !.outcome = "fulfilled"]
    ELSE IF o.kind = "modifyJob" /\ o.fn = "updateJob"
         THEN [o EXCEPT !.fn = "saveJob", !.pc = "read", !.faulted = TRUE]
         ELSE [o EXCEPT !.pc = "settle", !.outcome = "rejected",
                        !.msg = SetItemError, !.faulted = TRUE]

\* (mutant of SetItem) a write that clears the key first and so leaves it
\* empty when the write fails.
SetItemClearFirst(item, list, writeOk) ==
    IF writeOk THEN JSONStringify(list) ELSE NullItem

SetItem(item, list, writeOk) ==
    IF writeOk THEN SetItemResolved(item, list) ELSE SetItemRejected(item, list)

\* The setItem of the call in slot s returns.
WriteReturns(s, writeOk) ==
    /\ ops[s].pc = "write"
    /\ writeOk \/ MayFail(ops[s])
    /\ ops' = [ops EXCEPT ![s] = AfterWrite(ops[s], writeOk)]
    /\ IF ops[s].fn \in JobFns
       THEN /\ jobsItem' = SetItem(jobsItem, ops[s].list, writeOk)
            /\ UNCHANGED clientsItem
       ELSE /\ clientsItem' = SetItem(clientsItem, ops[s].list, writeOk)
            /\ UNCHANGED jobsItem
    /\ UNCHANGED <<jobs, loading, error, filter, finVars, svcVars, replaced, intent>>

RepoWrite == \E s \in Slots, writeOk \in BOOLEAN : WriteReturns(s, writeOk)

\* The promise of the thunk in slot s resolves: <thunk>.fulfilled is
\* dispatched.
FulfilledIn(s) ==
    /\ ops[s].kind \in Thunks
    /\ ops[s].pc = "settle"
    /\ ops[s].outcome = "fulfilled"
    /\ jobs' = FulfilledJobs(ops[s].kind, jobs, ops[s])
    /\ loading' = FulfilledFlags.loading
    /\ error' = FulfilledFlags.error
    /\ ops' = [ops EXCEPT ![s] = Idle]
    /\ UNCHANGED <<jobsItem, clientsItem, filter, finVars, svcVars, replaced, intent>>

Fulfilled == \E s \in Slots : FulfilledIn(s)

\* The promise of the thunk in slot s rejects: <thunk>.rejected is
\* dispatched.
RejectedIn(s) ==
    /\ ops[s].kind \in Thunks
    /\ ops[s].pc = "settle"
    /\ ops[s].outcome = "rejected"
    /\ jobs' = RejectedJobs(jobs)
    /\ loading' = RejectedFlags(ops[s].kind, ops[s].msg).loading
    /\ error' = RejectedFlags(ops[s].kind, ops[s].msg).error
    /\ ops' = [ops EXCEPT ![s] = Idle]
    /\ UNCHANGED <<jobsItem, clientsItem, filter, finVars, svcVars, replaced, intent>>

Rejected == \E s \in Slots : RejectedIn(s)

\* The record of a dispatched cache-only intent, kept where intents are
\* recorded: its type, its payload and the jobs it was applied to.
Recorded(type, payload) ==
    IF intent = IntentsOff THEN IntentsOff
    ELSE [type |-> type, payload |-> payload, before |-> jobs]

\* The cache-only reducers of the jobs slice.  setJobs is given a collection
\* of distinct jobs; lists that repeat an id still arise through addJob.
SetJobs ==
    \E payload \in JobLists :
        /\ NoDupIds(payload)
        /\ Len(payload) + PendingPushes <= MaxLen
        /\ jobs' = payload
        /\ loading' = FALSE
        /\ error' = Null
        /\ intent' = Recorded("setJobs", payload)
        /\ UNCHANGED <<jobsItem, clientsItem, filter, ops, finVars, svcVars, replaced>>

AddJob ==
    \E job \in JobT :
        /\ Len(jobs) + PendingPushes < MaxLen
        /\ jobs' = Append(jobs, job)
        /\ intent' = Recorded("addJob", job)
        /\ UNCHANGED <<jobsItem, clientsItem, loading, error, filter, ops, finVars, svcVars, replaced>>

UpdateJob ==
    \E job \in JobT :
        /\ jobs' = ReplaceAtIndex(jobs, job)
        /\ intent' = Recorded("updateJob", job)
        /\ UNCHANGED <<jobsItem, clientsItem, loading, error, filter, ops, finVars, svcVars, replaced>>

DeleteJob ==
    \E id \in JobIdSet :
        /\ jobs' = FilterOutId(jobs, id)
        /\ intent' = Recorded("deleteJob", id)
        /\ UNCHANGED <<jobsItem, clientsItem, loading, error, filter, ops, finVars, svcVars, replaced>>

Init ==
    /\ jobsItem \in {NullItem} \cup {JSONStringify(l) : l \in JobLists}
    /\ clientsItem = NullItem
    /\ jobs = <<>>
    /\ loading = FALSE
    /\ error = Null
    /\ filter = "all"
    /\ ops = [s \in Slots |-> Idle]
    /\ finJob = NoScreenJob
    /\ figures = NoFigures
    /\ ServicesIdle

\* One async action at a time: the next one is dispatched when the last one
\* has settled.
Next ==
    \/ InFlight = {} /\ DispatchFetchJobs
    \/ InFlight = {} /\ DispatchCreateJob
    \/ InFlight = {} /\ DispatchModifyJob
    \/ InFlight = {} /\ DispatchRemoveJob
    \/ RepoRead
    \/ RepoWrite
    \/ Fulfilled
    \/ Rejected
    \/ SetJobs
    \/ AddJob
    \/ UpdateJob
    \/ DeleteJob

Spec == Init /\ [][Next]_vars

(* ---------------------- direct repository calls ----------------------- *)

\* A caller (a screen, the seeder) awaits a repository function, one call at
\* a time.
CallRepo(s, fn, arg, pc, list) ==
    /\ InFlight = {}
    /\ FreeSlot(s)
    /\ Start(s, Started(fn, fn, arg, pc, list, ItemOf(fn)))
    /\ replaced' = IF fn \in {"getJobs", "getClients"} THEN replaced ELSE None
    /\ UNCHANGED <<jobsItem, clientsItem, jobs, loading, error, filter, finVars, svcVars, intent>>

AnyClient == [id |-> "c1", fullName |-> "Ann"]

CallGetJobs == \E s \in Slots : CallRepo(s, "getJobs", AnyJob, "read", <<>>)

CallSaveJob ==
    \E s \in Slots, job \in JobT :
        /\ Len(StoredJobs) < MaxLen
        /\ CallRepo(s, "saveJob", job, "read", <<>>)

CallUpdateJob ==
    \E s \in Slots, job \in JobT : CallRepo(s, "updateJob", job, "read", <<>>)

CallDeleteJob ==
    \E s \in Slots, id \in JobIdSet :
        CallRepo(s, "deleteJob", [AnyJob EXCEPT !.id = id], "read", <<>>)

\* setJobs does not read: it goes straight to its setItem.
CallSetJobs ==
    \E s \in Slots, list \in JobLists :
        CallRepo(s, "setJobs", AnyJob, "write", list)

CallGetClients ==
    \E s \in Slots : CallRepo(s, "getClients", AnyClient, "read", <<>>)

CallSaveClient ==
    \E s \in Slots, client \in ClientT :
        /\ Len(StoredClients) < MaxLen \/ HasId(StoredClients, client.id)
        /\ CallRepo(s, "saveClient", client, "read", <<>>)

CallUpdateClient ==
    \E s \in Slots, client \in ClientT :
        CallRepo(s, "updateClient", client, "read", <<>>)

CallDeleteClient ==
    \E s \in Slots, id \in ClientIdSet :
        CallRepo(s, "deleteClient", [AnyClient EXCEPT !.id = id], "read", <<>>)

\* The seeder, its only caller, writes clients with distinct ids.
CallSetClients ==
    \E s \in Slots, list \in ClientLists :
        CallRepo(s, "setClients", AnyClient, "write", list)

\* The awaited call returns to its caller, with a value or with what it threw.
Return ==
    \E s \in Slots :
        /\ ops[s].kind \in JobFns \cup ClientFns
        /\ ops[s].pc = "settle"
        /\ ops' = [ops EXCEPT ![s] = Idle]
        /\ replaced' =
              IF ops[s].fn \in {"setJobs", "setClients"} /\ ops[s].outcome = "fulfilled"
              THEN Some([fn |-> ops[s].fn, list |-> ops[s].list])
              ELSE None
        /\ UNCHANGED <<jobsItem, clientsItem, jobs, loading, error, filter, finVars, svcVars, intent>>

InitRepo ==
    /\ jobsItem \in {NullItem} \cup {JSONStringify(l) : l \in JobLists}
    /\ clientsItem \in
          {NullItem} \cup
          {JSONStringify(l) : l \in ClientLists}
    /\ jobs = <<>>
    /\ loading = FALSE
    /\ error = Null
    /\ filter = "all"
    /\ ops = [s \in Slots |-> Idle]
    /\ finJob = NoScreenJob
    /\ figures = NoFigures
    /\ ServicesIdle

NextRepo ==
    \/ InFlight = {} /\ CallGetJobs
    \/ InFlight = {} /\ CallSaveJob
    \/ InFlight = {} /\ CallUpdateJob
    \/ InFlight = {} /\ CallDeleteJob
    \/ InFlight = {} /\ CallSetJobs
    \/ InFlight = {} /\ CallGetClients
    \/ InFlight = {} /\ CallSaveClient
    \/ InFlight = {} /\ CallUpdateClient
    \/ InFlight = {} /\ CallDeleteClient
    \/ InFlight = {} /\ CallSetClients
    \/ RepoRead
    \/ RepoWrite
    \/ Return

SpecRepo == InitRepo /\ [][NextRepo]_vars

(* ------------------------ steps of an async action --------------------- *)

\* The step is the pending event of the thunk started in slot s.
PendingStep(s) == ops[s].pc = "idle" /\ ops'[s].kind \in Thunks

\* The step is a storage step (a read or a write returning) of the thunk in s.
StorageStep(s) ==
    /\ ops[s].kind \in Thunks
    /\ ops[s].pc \in {"read", "write"}
    /\ ops'[s] # ops[s]

\* The step is the fulfilled event of the thunk in slot s.
FulfilledStep(s) ==
    /\ ops[s].kind \in Thunks
    /\ ops[s].pc = "settle"
    /\ ops[s].outcome = "fulfilled"
    /\ ops'[s].pc = "idle"

\* The step is the rejected event of the thunk in slot s.
RejectedStep(s) ==
    /\ ops[s].kind \in Thunks
    /\ ops[s].pc = "settle"
    /\ ops[s].outcome = "rejected"
    /\ ops'[s].pc = "idle"

\* The stored collection when the call in slot s was started.
Before(s) == GetList(ops[s].before, TRUE)

(* ------------------------------- C1 ------------------------------------ *)

\* C1 (upsert law): a modifyJob(job) none of whose storage calls failed, run
\* with no other action in flight, ends fulfilled, and the stored collection
\* is then the one stored at dispatch with job under job.id: every record
\* with that id replaced in place when the id was stored, job appended at
\* the end when it was not.
C1_UpsertLaw ==
    \A s \in Slots :
        (ops[s].kind = "modifyJob" /\ ops[s].pc = "settle" /\ ~ops[s].faulted) =>
            LET b == Before(s)
                job == ops[s].arg
            IN  /\ ops[s].outcome = "fulfilled"
                /\ HasId(StoredJobs, job.id)
                /\ IF \E i \in 1..Len(b) : b[i].id = job.id
                   THEN /\ Len(StoredJobs) = Len(b)
                        /\ \A i \in 1..Len(b) :
                              StoredJobs[i] = IF b[i].id = job.id THEN job ELSE b[i]
                   ELSE /\ Len(StoredJobs) = Len(b) + 1
                        /\ StoredJobs[Len(b) + 1] = job
                        /\ \A i \in 1..Len(b) : StoredJobs[i] = b[i]

\* A modifyJob of an id that was not stored has settled on a store that held
\* another job: the fallback appended the record.
C1_Witness ==
    \E s \in Slots :
        /\ ops[s].kind = "modifyJob" /\ ops[s].pc = "settle" /\ ~ops[s].faulted
        /\ Len(Before(s)) = 1
        /\ ~HasId(Before(s), ops[s].arg.id)
        /\ Len(StoredJobs) = 2

(* ------------------------------- C2 ------------------------------------ *)

\* C2: no event of an async jobs action other than its fulfilled event
\* changes the in-memory jobs: the pending event, the storage steps and the
\* rejected event leave state.jobs (and the filter) as they were, so that a
\* rejected action leaves jobs as it found them at dispatch; the rejected
\* event changes loading and error only.
C2_RejectedKeepsJobs ==
    [][\A s \in Slots :
          (PendingStep(s) \/ StorageStep(s) \/ RejectedStep(s)) =>
              /\ jobs' = jobs
              /\ filter' = filter
              /\ jobsItem' = jobsItem \/ StorageStep(s)]_vars

\* A removeJob was rejected while the memory held jobs: they are still there.
C2_Witness ==
    /\ InFlight = {}
    /\ error = JobNotFound("j2")
    /\ ~loading
    /\ Len(jobs) = 2

(* ------------------------------- C3 ------------------------------------ *)

\* C3: the flags follow the lifecycle of an async jobs action: its pending
\* event leaves loading = true and error = null, its fulfilled event
\* loading = false and error = null, its rejected event loading = false and
\* error = the message of the failure (the not-found message of the id for a
\* removeJob of an id that is not stored, the storage error's otherwise).
C3_Lifecycle ==
    [][\A s \in Slots :
          /\ PendingStep(s) => (loading' = TRUE /\ error' = Null)
          /\ FulfilledStep(s) => (loading' = FALSE /\ error' = Null)
          /\ RejectedStep(s) =>
                /\ loading' = FALSE
                /\ error' = ops[s].msg
                /\ error' \in {SetItemError, JobNotFound(ops[s].arg.id)}
                /\ ops[s].faulted \/ error' = JobNotFound(ops[s].arg.id)]_vars

\* A createJob was rejected by a failed write: the flags carry its message.
C3_Witness ==
    /\ InFlight = {}
    /\ loading = FALSE
    /\ error = SetItemError

(* ------------------------------- C4 ------------------------------------ *)

\* The least index of a record of js with the given id, 0 when there is none.
FirstWithId(js, id) ==
    IF \E i \in 1..Len(js) : js[i].id = id
    THEN CHOOSE i \in 1..Len(js) :
            js[i].id = id /\ \A k \in 1..Len(js) : js[k].id = id => i <= k
    ELSE 0

\* C4: a fulfilled event changes the in-memory jobs in exactly this way:
\* fetchJobs replaces them by the fetched collection; createJob appends the
\* created job; modifyJob puts the job in the place of the (first) record
\* with its id and changes nothing else, not the length either; removeJob
\* keeps the records with another id, in their order, and no other.
C4_FulfilledEffect ==
    [][\A s \in Slots : FulfilledStep(s) =>
          LET job == ops[s].arg
              kind == ops[s].kind
          IN  /\ kind = "fetchJobs" => jobs' = ops[s].list
              /\ kind = "createJob" =>
                    /\ Len(jobs') = Len(jobs) + 1
                    /\ jobs'[Len(jobs')] = job
                    /\ \A i \in 1..Len(jobs) : jobs'[i] = jobs[i]
              /\ kind = "modifyJob" =>
                    /\ Len(jobs') = Len(jobs)
                    /\ \A i \in 1..Len(jobs) :
                          jobs'[i] = IF i = FirstWithId(jobs, job.id)
                                     THEN job ELSE jobs[i]
              /\ kind = "removeJob" =>
                    jobs' = SelectSeq(jobs, LAMBDA j : j.id # job.id)]_vars

\* A fulfilled modifyJob is about to replace the second of two records in
\* memory by a different record.
C4_Witness ==
    \E s \in Slots :
        /\ ops[s].kind = "modifyJob"
        /\ ops[s].pc = "settle"
        /\ ops[s].outcome = "fulfilled"
        /\ Len(jobs) = 2
        /\ FirstWithId(jobs, ops[s].arg.id) = 2
        /\ jobs[2] # ops[s].arg

(* ------------------------------- C8 ------------------------------------ *)

\* C8: a fetchJobs whose storage read failed (getItem rejected or the stored
\* string did not parse) ends rejected, with the failure's message.
C8_ReadFailureRejects ==
    \A s \in Slots :
        (ops[s].kind = "fetchJobs" /\ ops[s].pc = "settle" /\ ops[s].faulted) =>
            (ops[s].outcome = "rejected" /\ ops[s].msg # "")

(* ------------------------------- C5 ------------------------------------ *)

\* The collection now stored under the key the call in slot s works on.
StoredOf(s) == IF ops[s].fn \in JobFns THEN StoredJobs ELSE StoredClients

NotFoundOf(s) ==
    IF ops[s].fn \in JobFns
    THEN JobNotFound(ops[s].arg.id)
    ELSE ClientNotFound(ops[s].arg.id)

\* C5: an update or a delete (of a job or of a client) with an id that no
\* stored record has throws the not-found error of that id and leaves the
\* stored collection as it was.
C5_NotFoundLeavesStore ==
    \A s \in Slots :
        ( /\ ops[s].kind \in {"updateJob", "deleteJob", "updateClient", "deleteClient"}
          /\ ops[s].pc = "settle"
          /\ \A i \in 1..Len(Before(s)) : Before(s)[i].id # ops[s].arg.id ) =>
            /\ ops[s].outcome = "rejected"
            /\ ops[s].msg = NotFoundOf(s)
            /\ StoredOf(s) = Before(s)
            /\ ItemOf(ops[s].fn) = ops[s].before

\* A deleteJob of an id that neither of the two stored jobs has has thrown.
C5_Witness ==
    \E s \in Slots :
        /\ ops[s].kind = "deleteJob"
        /\ ops[s].pc = "settle"
        /\ Len(Before(s)) = 2
        /\ ~HasId(Before(s), ops[s].arg.id)
        /\ ops[s].outcome = "rejected"

(* ------------------------------- C6 ------------------------------------ *)

\* C6: an update (of a job or of a client) of a stored id that succeeds
\* replaces the record at its position: same length, the record(s) with the
\* id replaced by the new one at the same index, every other record
\* unchanged at its index.
C6_UpdateInPlace ==
    \A s \in Slots :
        ( /\ ops[s].kind \in {"updateJob", "updateClient"}
          /\ ops[s].pc = "settle"
          /\ ops[s].outcome = "fulfilled" ) =>
            /\ Len(StoredOf(s)) = Len(Before(s))
            /\ \A i \in 1..Len(Before(s)) :
                  StoredOf(s)[i] = IF Before(s)[i].id = ops[s].arg.id
                                   THEN ops[s].arg ELSE Before(s)[i]

(* ------------------------------- C7 ------------------------------------ *)

\* C7: when the setItem of a repository create, update, delete or replaceAll
\* (on jobs or clients) rejects, the key holds exactly the string it held
\* before the call: the call has written nothing else before it.
C7_FailedWriteKeepsStore ==
    \A s \in Slots :
        ( /\ ops[s].kind \in (JobFns \cup ClientFns) \ {"getJobs", "getClients"}
          /\ ops[s].pc = "settle"
          /\ ops[s].outcome = "rejected"
          /\ ops[s].msg = SetItemError ) =>
            ItemOf(ops[s].fn) = ops[s].before

\* The setItem of a saveClient on a store of one client has rejected.
C7_Witness ==
    \E s \in Slots :
        /\ ops[s].kind = "saveClient"
        /\ ops[s].pc = "settle"
        /\ ops[s].msg = SetItemError
        /\ Len(Before(s)) = 1
        /\ Len(ops[s].list) = 2

(* ------------------- the job detail view, the payment flow ------------- *)

\* JobDetailScreen renders the job: its financial summary.
ViewJobDetail ==
    /\ figures' =
          [screen |-> "JobDetail",
           totalExpenses |-> CalculateTotalExpenses(finJob),
           profit |-> CalculateProfit(finJob),
           reimbursableTotal |-> CalculateReimbursableTotal(finJob),
           totalDue |-> finJob.quote + CalculateReimbursableTotal(finJob),
           totalPaid |-> CalculateTotalPaid(finJob),
           amountOwed |-> CalculateAmountOwed(finJob)]
    /\ UNCHANGED <<finJob, coreVars, svcVars>>

\* PaymentScreen renders the job: what is due, paid and owed.
OpenPaymentScreen ==
    /\ figures' =
          [NoFigures EXCEPT
             !.screen = "Payment",
             !.reimbursableTotal = CalculateReimbursableTotal(finJob),
             !.totalDue = finJob.quote + CalculateReimbursableTotal(finJob),
             !.totalPaid = PaymentScreenTotalPaid(finJob.payments),
             !.amountOwed = PaymentScreenAmountOwed(finJob, finJob.payments)]
    /\ UNCHANGED <<finJob, coreVars, svcVars>>

\* PaymentScreen.processPayment with a successful result: the payment is
\* appended, the figures are recomputed over the new ledger, and the updated
\* job (Completed once nothing is owed) is what modifyJob is dispatched with.
RecordPayment ==
    \E amount \in PaymentAmountSet :
        LET payment == [amount |-> amount, status |-> "completed"]
            newPayments == Append(finJob.payments, payment)
            owed == PaymentScreenAmountOwed(finJob, newPayments)
        IN  /\ Len(finJob.payments) < MaxPayments
            /\ finJob' = [finJob EXCEPT
                            !.payments = newPayments,
                            !.status = IF owed <= 0 THEN "Completed" ELSE @]
            /\ figures' =
                  [NoFigures EXCEPT
                     !.screen = "PaymentDone",
                     !.reimbursableTotal = CalculateReimbursableTotal(finJob),
                     !.totalDue = finJob.quote + CalculateReimbursableTotal(finJob),
                     !.totalPaid = PaymentScreenTotalPaid(newPayments),
                     !.amountOwed = owed]
            /\ UNCHANGED <<coreVars, svcVars>>

InitFin ==
    /\ jobsItem = NullItem
    /\ clientsItem = NullItem
    /\ jobs = <<>>
    /\ loading = FALSE
    /\ error = Null
    /\ filter = "all"
    /\ ops = [s \in Slots |-> Idle]
    /\ finJob \in [quote : QuoteSet, status : JobStatusSet,
                   expenses : SeqsUpTo(ExpenseT, MaxExpenses),
                   payments : SeqsUpTo(PaymentT, MaxPayments)]
    /\ figures = NoFigures
    /\ ServicesIdle

NextFin ==
    \/ ViewJobDetail
    \/ OpenPaymentScreen
    \/ RecordPayment

SpecFin == InitFin /\ [][NextFin]_vars

(* ------------------------------- C9 ------------------------------------ *)

\* C9: the amount owed a screen shows (the job detail view, the payment
\* screen, and the payment flow after it has appended a payment) is never
\* negative, whatever the expenses and the ledger, overpayment included.
C9_AmountOwedNonNegative ==
    figures.screen # "none" => figures.amountOwed >= 0

\* An overpaid job: the counted payments exceed what is due, and the job
\* detail view shows 0 owed.
C9_Witness ==
    /\ figures.screen = "JobDetail"
    /\ figures.totalPaid > figures.totalDue
    /\ figures.amountOwed = 0

(* ------------------------------- C10 ----------------------------------- *)

\* The sum of the amounts of the payments that are neither failed nor
\* cancelled.
RECURSIVE CountedPaid(_)
CountedPaid(payments) ==
    IF payments = <<>> THEN 0
    ELSE (IF Head(payments).status \in {"failed", "cancelled"}
          THEN 0 ELSE Head(payments).amount) + CountedPaid(Tail(payments))

\* C10: the paid total every screen computes is the sum of the amounts of the
\* job's payments whose status is neither failed nor cancelled.
C10_TotalPaidCountsSettled ==
    figures.screen # "none" => figures.totalPaid = CountedPaid(finJob.payments)

(* ------------------------------- C11 ----------------------------------- *)

\* C11: when the payment flow records a successful payment, the job it hands
\* to modifyJob is Completed if the amount owed, recomputed over the ledger
\* with the new payment, is 0 (whatever the status was, Cancelled included),
\* and keeps its status otherwise.
C11_StatusAfterPayment ==
    [][(figures'.screen = "PaymentDone" /\ finJob'.payments # finJob.payments) =>
          finJob'.status =
              IF CalculateAmountOwed(finJob') = 0
              THEN "Completed" ELSE finJob.status]_vars

(* ------------------------------- C12 ----------------------------------- *)

\* C12: the profit the job detail view shows is quote - totalExpenses +
\* reimbursableTotal, and it is the profit of the same job with any
\* reimbursable expense added, or with any of its reimbursable expenses
\* removed.
C12_ProfitFormula ==
    figures.screen = "JobDetail" =>
        /\ figures.profit =
              finJob.quote - figures.totalExpenses + figures.reimbursableTotal
        /\ \A a \in ExpenseAmountSet :
              CalculateProfit(
                  [finJob EXCEPT !.expenses =
                      Append(@, [amount |-> a, isReimbursable |-> TRUE])])
              = figures.profit
        /\ \A i \in 1..Len(finJob.expenses) :
              finJob.expenses[i].isReimbursable =>
                  CalculateProfit(
                      [finJob EXCEPT !.expenses =
                          SubSeq(@, 1, i - 1) \o SubSeq(@, i + 1, Len(@))])
                  = figures.profit

\* The job detail view of a job with a reimbursable and a non-reimbursable
\* expense: the profit is the quote less the non-reimbursable amount only.
C12_Witness ==
    /\ figures.screen = "JobDetail"
    /\ Len(finJob.expenses) = 2
    /\ finJob.expenses[1].isReimbursable
    /\ ~finJob.expenses[2].isReimbursable
    /\ figures.profit = finJob.quote - finJob.expenses[2].amount

(* --------------------------- the wall clock ---------------------------- *)

\* Latest reading of the wall clock, in milliseconds.
MaxClock == 3

\* Time passes.
Tick ==
    /\ clock < MaxClock
    /\ clock' = clock + 1
    /\ UNCHANGED <<coreVars, finVars, payCall, trendCall, seedLog, dispatched>>

(* -------------------------- PaymentService ----------------------------- *)

PaymentMethodSet == {"paypal", "gcash", "cash", "card", "venmo"}

\* The amounts a PaymentRequest may carry: the service does not validate.
RequestAmountSet == {0, 100, 530}

\* Math.random().toString(36).substr(2, 9).toUpperCase()
RandomSuffixSet == {"K3X9", "Q7T2"}

PaymentRequestT ==
    [jobId : JobIdSet, amount : RequestAmountSet, method : PaymentMethodSet]

\* `payment_${Date.now()}`
PaymentId(now) == "payment_" \o ToString(now)

\* (mutant of ProcessCashPayment) a cash payment without a transactionId.
ProcessCashPaymentNoTransaction(paymentId, request) ==
    [success |-> TRUE,
     payment |-> Some([id |-> paymentId, jobId |-> request.jobId,
                       amount |-> request.amount, method |-> "cash",
                       status |-> "completed", transactionId |-> None,
                       notes |-> "Cash payment received"]),
     error |-> None]

\* PaymentService.processCashPayment
ProcessCashPayment(paymentId, request) ==
    [success |-> TRUE,
     payment |-> Some([id |-> paymentId, jobId |-> request.jobId,
                       amount |-> request.amount, method |-> "cash",
                       status |-> "completed",
                       transactionId |-> Some("CASH_" \o paymentId),
                       notes |-> "Cash payment received"]),
     error |-> None]

\* processPayPalPayment and processGCashPayment, which differ in their
\* texts only: the simulated gateway accepts (isSuccessful) or declines, and
\* a declined payment comes back as a failed Payment with the error.
ProcessGatewayPayment(paymentId, request, prefix, done, declined, ok, random) ==
    IF ok
    THEN [success |-> TRUE,
          payment |-> Some([id |-> paymentId, jobId |-> request.jobId,
                            amount |-> request.amount,
                            method |-> request.method,
                            status |-> "completed",
                            transactionId |-> Some(prefix \o random),
                            notes |-> done]),
          error |-> None]
    ELSE [success |-> FALSE,
          payment |-> Some([id |-> paymentId, jobId |-> request.jobId,
                            amount |-> request.amount,
                            method |-> request.method,
                            status |-> "failed",
                            transactionId |-> None,
                            notes |-> declined]),
          error |-> Some(declined)]

\* PaymentService.processPayPalPayment
ProcessPayPalPayment(paymentId, request, isSuccessful, random) ==
    ProcessGatewayPayment(paymentId, request, "PP_", "PayPal payment completed",
                          "PayPal payment was declined", isSuccessful, random)

\* PaymentService.processGCashPayment
ProcessGCashPayment(paymentId, request, isSuccessful, random) ==
    ProcessGatewayPayment(paymentId, request, "GC_", "GCash payment completed",
                          "GCash payment was declined or timed out",
                          isSuccessful, random)

\* PaymentService.processPayment: the switch on the method; the default
\* branch throws, and the catch block returns the error without a payment.
ProcessPayment(request, now, isSuccessful, random) ==
    CASE request.method = "cash" ->
            ProcessCashPayment(PaymentId(now), request)
      [] request.method = "paypal" ->
            ProcessPayPalPayment(PaymentId(now), request, isSuccessful, random)
      [] request.method = "gcash" ->
            ProcessGCashPayment(PaymentId(now), request, isSuccessful, random)
      [] OTHER ->
            [success |-> FALSE, payment |-> None,
             error |-> Some("Unsupported payment method")]

\* A caller awaits paymentService.processPayment(request).
CallProcessPayment ==
    \E request \in PaymentRequestT, isSuccessful \in BOOLEAN,
       random \in RandomSuffixSet :
        /\ payCall' =
              [made |-> TRUE, request |-> request,
               result |-> ProcessPayment(request, clock, isSuccessful, random)]
        /\ UNCHANGED <<coreVars, finVars, trendCall, clock, seedLog, dispatched>>

InitPay ==
    /\ jobsItem = NullItem
    /\ clientsItem = NullItem
    /\ jobs = <<>>
    /\ loading = FALSE
    /\ error = Null
    /\ filter = "all"
    /\ ops = [s \in Slots |-> Idle]
    /\ finJob = NoScreenJob
    /\ figures = NoFigures
    /\ ServicesIdle

NextPay ==
    \/ CallProcessPayment
    \/ Tick

SpecPay == InitPay /\ [][NextPay]_vars

(* ------------------------------- C13 ----------------------------------- *)

\* C13: processPayment with method cash, whatever the jobId and the amount,
\* returns success = true and a payment of status completed that carries a
\* transactionId; no cash call ends otherwise.
C13_CashAlwaysSucceeds ==
    (payCall.made /\ payCall.request.method = "cash") =>
        /\ payCall.result.success
        /\ payCall.result.error = None
        /\ Len(payCall.result.payment) = 1
        /\ payCall.result.payment[1].status = "completed"
        /\ payCall.result.payment[1].method = "cash"
        /\ payCall.result.payment[1].amount = payCall.request.amount
        /\ payCall.result.payment[1].jobId = payCall.request.jobId
        /\ Len(payCall.result.payment[1].transactionId) = 1

\* A cash payment of 530 on job j2 was processed at a later moment.
C13_Witness ==
    /\ payCall.made
    /\ payCall.request = [jobId |-> "j2", amount |-> 530, method |-> "cash"]
    /\ payCall.result.success
    /\ payCall.result.payment[1].transactionId = Some("CASH_payment_2")

(* ------------------------------- C14 ----------------------------------- *)

\* C14: for the methods paypal, gcash, card and venmo, processPayment returns
\* one of two outcomes: success with a completed Payment that has a
\* transactionId, or failure with an error message and a Payment of status
\* failed.
C14_GatewayOutcomes ==
    (payCall.made /\ payCall.request.method \in {"paypal", "gcash", "card", "venmo"}) =>
        \/ /\ payCall.result.success
           /\ Len(payCall.result.payment) = 1
           /\ payCall.result.payment[1].status = "completed"
           /\ Len(payCall.result.payment[1].transactionId) = 1
        \/ /\ ~payCall.result.success
           /\ Len(payCall.result.error) = 1
           /\ Len(payCall.result.payment) = 1
           /\ payCall.result.payment[1].status = "failed"

(* ------------------------------- C15 ----------------------------------- *)

MaxSeedJobs == 2

\* Seedings whose outcome is kept for comparison.
MaxSeedRuns == 2

\* Milliseconds in a day, on the scale of the model's clock.
MsPerDay == 2

\* const now = () => new Date().toISOString()
Now(t) == t

\* formatDate(d): the calendar day of a moment.
FormatDate(t) == t \div MsPerDay

\* makeClient(i): createdDate is now().
MakeClient(i, t) ==
    [id |-> "client_" \o ToString(i),
     fullName |-> "Client " \o ToString(i),
     createdDate |-> Now(t)]

\* makeJob(i, client, status) as seedFullWorkflow completes it: startDate is
\* today less i days; createdDate stands for the now() of the job's expenses
\* and checklist items.
MakeJob(i, t) ==
    [id |-> "job_" \o ToString(i),
     jobName |-> "Job " \o ToString(i),
     startDate |-> FormatDate(t) - i,
     createdDate |-> Now(t)]

\* The jobs seedFullWorkflow builds, job_1 first.
FullWorkflowJobs(t) == [i \in 1..MaxSeedJobs |-> MakeJob(i, t)]

\* await setJobs(jobs); await persistClients(clients): the second write is
\* not reached when the first one throws.
SeedWrites(jobList, clientList, jobsOk, clientsOk) ==
    /\ jobsItem' = SetItem(jobsItem, jobList, jobsOk)
    /\ clientsItem' =
          IF jobsOk THEN SetItem(clientsItem, clientList, clientsOk)
          ELSE clientsItem

\* seedMinimal()
SeedMinimal ==
    \E jobsOk, clientsOk \in BOOLEAN :
        /\ SeedWrites(<<MakeJob(1, clock)>>, <<MakeClient(1, clock)>>,
                      jobsOk, clientsOk)
        /\ UNCHANGED <<jobs, loading, error, filter, ops, replaced, intent, finVars,
                       svcVars>>

\* seedFullWorkflow(); a run that completes is logged with the collections
\* it leaves stored.
SeedFullWorkflow ==
    \E jobsOk, clientsOk \in BOOLEAN :
        /\ Len(seedLog) < MaxSeedRuns
        /\ SeedWrites(FullWorkflowJobs(clock), <<MakeClient(1, clock)>>,
                      jobsOk, clientsOk)
        /\ seedLog' =
              IF jobsOk /\ clientsOk
              THEN Append(seedLog, [jobs |-> jobsItem', clients |-> clientsItem'])
              ELSE seedLog
        /\ UNCHANGED <<jobs, loading, error, filter, ops, replaced, intent, finVars,
                       payCall, trendCall, clock, dispatched>>

NextSeed ==
    \/ SeedMinimal
    \/ SeedFullWorkflow
    \/ Tick

SpecSeed == InitPay /\ [][NextSeed]_vars

(* ------------------------------- C17 ----------------------------------- *)

\* C17: seeding is idempotent: after a second completed seedFullWorkflow,
\* run at any later moment, the stored jobs and clients are identical, in
\* every field, to what the first run left.
C17_SeedIdempotent ==
    Len(seedLog) = 2 => seedLog[2] = seedLog[1]

(* ------------------------------- C18 ----------------------------------- *)

\* C18: a cache-only intent that mutates the jobs in memory (setJobs,
\* addJob, updateJob, deleteJob) leaves loading and error as they were, and
\* leaves the stored jobs collection as it was.
C18_CacheOnlyFrame ==
    [][(SetJobs \/ AddJob \/ UpdateJob \/ DeleteJob) =>
          /\ loading' = loading
          /\ error' = error
          /\ jobsItem' = jobsItem]_vars

(* ------------------------------- C19 ----------------------------------- *)

\* The cache-only reducers alone, on a fresh slice, each intent recorded.
InitCache ==
    /\ jobsItem = NullItem
    /\ clientsItem = NullItem
    /\ jobs = <<>>
    /\ loading = FALSE
    /\ error = Null
    /\ filter = "all"
    /\ ops = [s \in Slots |-> Idle]
    /\ finJob = NoScreenJob
    /\ figures = NoFigures
    /\ payCall = NoPayCall
    /\ trendCall = NoTrendCall
    /\ clock = 0
    /\ seedLog = <<>>
    /\ replaced = None
    /\ intent = NoIntent
    /\ dispatched = 0

NextCache ==
    \/ SetJobs
    \/ AddJob
    \/ UpdateJob
    \/ DeleteJob

SpecCache == InitCache /\ [][NextCache]_vars

\* C19: the cache-only updateJob intent with a job whose id no job in memory
\* has changes nothing: the jobs are the ones it was applied to, as many and
\* each unchanged, and none of them has the id.
C19_UpdateAbsentIsNoOp ==
    ( /\ intent.type = "updateJob"
      /\ ~HasId(intent.before, intent.payload.id) ) =>
        /\ jobs = intent.before
        /\ Len(jobs) = Len(intent.before)
        /\ ~HasId(jobs, intent.payload.id)

\* updateJob with a job of id j2 was applied to two jobs of id j1.
C19_Witness ==
    /\ intent.type = "updateJob"
    /\ Len(intent.before) = 2
    /\ intent.payload.id = "j2"
    /\ ~HasId(intent.before, "j2")
    /\ jobs = intent.before

(* --------------------------- BudgetAnalytics --------------------------- *)

\* Most expenses of one category.
MaxTrendLen == 3

\* The days expenses are dated, and their amounts (the expense form accepts
\* positive amounts only).
TrendDateSet == {1, 2}
TrendAmountSet == {95, 100, 110, 130}
TrendExpenseT == [date : TrendDateSet, amount : TrendAmountSet]

\* Insertion of e after the expenses that do not come later than it.
RECURSIVE InsertByDate(_, _)
InsertByDate(sorted, e) ==
    IF sorted = <<>> THEN <<e>>
    ELSE IF Head(sorted).date - e.date > 0
         THEN <<e>> \o sorted
         ELSE <<Head(sorted)>> \o InsertByDate(Tail(sorted), e)

\* (mutant of SortByDate) the expenses taken in the order given.
SortByDateSkipped(expenses) == expenses

\* expenses.sort((a, b) => new Date(a.date).getTime() -
\* new Date(b.date).getTime()): ascending dates, equal dates in the order
\* given.
RECURSIVE SortByDate(_)
SortByDate(expenses) ==
    IF expenses = <<>> THEN <<>>
    ELSE InsertByDate(SortByDate(SubSeq(expenses, 1, Len(expenses) - 1)),
                      expenses[Len(expenses)])

\* The comparisons of changePercent = ((secondHalfAvg - firstHalfAvg) /
\* firstHalfAvg) * 100 with 10 and -10, the averages being sum / count.  On
\* exact numbers changePercent is num / den; a zero firstHalfAvg gives
\* Infinity, -Infinity or NaN, and NaN compares false both ways.
TrendOfChange(firstSum, firstCount, secondSum, secondCount) ==
    LET num == (secondSum * firstCount - firstSum * secondCount) * 100
        den == firstSum * secondCount
    IN  IF den = 0
        THEN (IF num > 0 THEN "up" ELSE IF num < 0 THEN "down" ELSE "stable")
        ELSE IF (den > 0 /\ num > 10 * den) \/ (den < 0 /\ num < 10 * den)
             THEN "up"
        ELSE IF (den > 0 /\ num < -10 * den) \/ (den < 0 /\ num > -10 * den)
             THEN "down"
        ELSE "stable"

\* BudgetAnalytics.calculateTrend
CalculateTrend(expenses) ==
    IF Len(expenses) < 2 THEN "stable"
    ELSE LET sortedExpenses == SortByDate(expenses)
             half == Len(sortedExpenses) \div 2
             firstHalf == SubSeq(sortedExpenses, 1, half)
             secondHalf == SubSeq(sortedExpenses, half + 1, Len(sortedExpenses))
         IN  TrendOfChange(SumAmount(firstHalf), Len(firstHalf),
                           SumAmount(secondHalf), Len(secondHalf))

\* categorizeExpenses computes the trend of the expenses of one category.
CallCalculateTrend ==
    /\ ~trendCall.made
    /\ trendCall' =
          [trendCall EXCEPT !.made = TRUE,
                            !.trend = CalculateTrend(trendCall.expenses)]
    /\ UNCHANGED <<coreVars, finVars, payCall, clock, seedLog, dispatched>>

\* The expenses of a category, in the order categorizeExpenses collected
\* them, before their trend is computed.
InitTrend ==
    /\ jobsItem = NullItem
    /\ clientsItem = NullItem
    /\ jobs = <<>>
    /\ loading = FALSE
    /\ error = Null
    /\ filter = "all"
    /\ ops = [s \in Slots |-> Idle]
    /\ finJob = NoScreenJob
    /\ figures = NoFigures
    /\ payCall = NoPayCall
    /\ trendCall \in
          {[made |-> FALSE, expenses |-> e, trend |-> "none"] :
              e \in SeqsUpTo(TrendExpenseT, MaxTrendLen)}
    /\ clock = 0
    /\ seedLog = <<>>
    /\ replaced = None
    /\ intent = IntentsOff
    /\ dispatched = 0

NextTrend == CallCalculateTrend

SpecTrend == InitTrend /\ [][NextTrend]_vars

(* ------------------------------- C20 ----------------------------------- *)

\* The orders of the expenses that are ordered by date.
DateOrders(expenses) ==
    LET n == Len(expenses)
        perms == {p \in [1..n -> 1..n] : \A i, k \in 1..n : p[i] = p[k] => i = k}
    IN  {[i \in 1..n |-> expenses[p[i]]] : p \in
            {q \in perms : \A i \in 1..(n - 1) :
                              expenses[q[i]].date <= expenses[q[i + 1]].date}}

\* The trend of a date-ordered list: the first floor(n/2) expenses against
\* the rest, up when the second average is more than 10% above the first,
\* down when it is more than 10% below, stable otherwise.
TrendByHalves(ordered) ==
    LET n == Len(ordered)
        h == n \div 2
        first == SumAmount(SubSeq(ordered, 1, h))
        second == SumAmount(SubSeq(ordered, h + 1, n))
    IN  IF 10 * second * h > 11 * first * (n - h) THEN "up"
        ELSE IF 10 * second * h < 9 * first * (n - h) THEN "down"
        ELSE "stable"

\* C20: the trend of a category with fewer than 2 expenses is stable; with
\* n >= 2 expenses it is the trend by halves of the expenses ordered by
\* date: up when the second half's average exceeds the first half's by more
\* than 10%, down when it is lower by more than 10%, stable otherwise.
C20_CategoryTrend ==
    trendCall.made =>
        IF Len(trendCall.expenses) < 2
        THEN trendCall.trend = "stable"
        ELSE \E ordered \in DateOrders(trendCall.expenses) :
                trendCall.trend = TrendByHalves(ordered)

\* Amounts 100, 100 and 130 by date, given with the latest expense first:
\* the trend is up.
C20_Witness ==
    /\ trendCall.made
    /\ trendCall.expenses = <<[date |-> 2, amount |-> 130],
                              [date |-> 1, amount |-> 100],
                              [date |-> 1, amount |-> 100]>>
    /\ trendCall.trend = "up"

(* ---------------------- expense categories ------------------------------ *)

\* A string as the sequence of its characters, where its characters matter.
UpperCaseLetters ==
    <<"A", "B", "C", "D", "E", "F", "G", "H", "I", "J", "K", "L", "M",
      "N", "O", "P", "Q", "R", "S", "T", "U", "V", "W", "X", "Y", "Z">>
LowerCaseLetters ==
    <<"a", "b", "c", "d", "e", "f", "g", "h", "i", "j", "k", "l", "m",
      "n", "o", "p", "q", "r", "s", "t", "u", "v", "w", "x", "y", "z">>

\* String.prototype.toLowerCase
ToLowerCase(str) ==
    [i \in 1..Len(str) |->
        IF \E k \in 1..Len(UpperCaseLetters) : UpperCaseLetters[k] = str[i]
        THEN LowerCaseLetters[CHOOSE k \in 1..Len(UpperCaseLetters) : UpperCaseLetters[k] = str[i]]
        ELSE str[i]]

\* String.prototype.includes
Includes(str, word) ==
    \E i \in 1..(Len(str) - Len(word) + 1) :
        SubSeq(str, i, i + Len(word) - 1) = word

\* The chain of ifs of getCategoryFromDescription on the lower-cased
\* description: the first test that succeeds returns.
CategoryOfLowerDesc(lowerDesc) ==
    IF \/ Includes(lowerDesc, <<"g", "a", "s">>)
       \/ Includes(lowerDesc, <<"f", "u", "e", "l">>)
       \/ Includes(lowerDesc, <<"g", "a", "s", "o", "l", "i", "n", "e">>)
    THEN "Fuel"
    ELSE IF \/ Includes(lowerDesc, <<"f", "o", "o", "d">>)
            \/ Includes(lowerDesc, <<"m", "e", "a", "l">>)
            \/ Includes(lowerDesc, <<"l", "u", "n", "c", "h">>)
            \/ Includes(lowerDesc, <<"d", "i", "n", "n", "e", "r">>)
    THEN "Meals"
    ELSE IF \/ Includes(lowerDesc, <<"p", "h", "o", "n", "e">>)
            \/ Includes(lowerDesc, <<"d", "a", "t", "a">>)
            \/ Includes(lowerDesc, <<"c", "e", "l", "l", "u", "l", "a", "r">>)
            \/ Includes(lowerDesc, <<"m", "o", "b", "i", "l", "e">>)
    THEN "Phone/Data"
    ELSE IF \/ Includes(lowerDesc, <<"p", "a", "r", "k", "i", "n", "g">>)
            \/ Includes(lowerDesc, <<"t", "o", "l", "l">>)
            \/ Includes(lowerDesc, <<"f", "e", "e">>)
    THEN "Parking & Tolls"
    ELSE IF \/ Includes(lowerDesc, <<"m", "a", "i", "n", "t", "e", "n", "a", "n", "c", "e">>)
            \/ Includes(lowerDesc, <<"r", "e", "p", "a", "i", "r">>)
            \/ Includes(lowerDesc, <<"o", "i", "l">>)
            \/ Includes(lowerDesc, <<"t", "i", "r", "e">>)
    THEN "Vehicle Maintenance"
    ELSE IF \/ Includes(lowerDesc, <<"i", "n", "s", "u", "r", "a", "n", "c", "e">>)
            \/ Includes(lowerDesc, <<"r", "e", "g", "i", "s", "t", "r", "a", "t", "i", "o", "n">>)
            \/ Includes(lowerDesc, <<"l", "i", "c", "e", "n", "s", "e">>)
    THEN "Insurance & Licensing"
    ELSE IF \/ Includes(lowerDesc, <<"s", "u", "p", "p", "l", "y">>)
            \/ Includes(lowerDesc, <<"e", "q", "u", "i", "p", "m", "e", "n", "t">>)
            \/ Includes(lowerDesc, <<"b", "a", "g">>)
            \/ Includes(lowerDesc, <<"c", "h", "a", "r", "g", "e", "r">>)
    THEN "Supplies & Equipment"
    ELSE "Other"

\* (mutant of GetCategoryFromDescription) the keywords looked for in the
\* description as it was typed.
GetCategoryCaseSensitive(description) == CategoryOfLowerDesc(description)

\* BudgetAnalytics.getCategoryFromDescription
GetCategoryFromDescription(description) ==
    CategoryOfLowerDesc(ToLowerCase(description))


\* Most jobs handed to categorizeExpenses, and most expenses of all of them
\* together.
MaxCatJobs == 2
MaxCatExpenses == 3

\* The expenses a job may carry: "Gas", "Bag fee" (a Parking & Tolls and a
\* Supplies & Equipment keyword), "LUNCH" and "Tip" (no keyword).
CatExpenseSet ==
    {[description |-> <<"G", "a", "s">>, amount |-> 100, date |-> 1],
     [description |-> <<"B", "a", "g", " ", "f", "e", "e">>, amount |-> 130, date |-> 2],
     [description |-> <<"L", "U", "N", "C", "H">>, amount |-> 95, date |-> 1],
     [description |-> <<"T", "i", "p">>, amount |-> 110, date |-> 2]}

\* A job list with the given expenses, the k-th job holding the ones after
\* cut k - 1 up to cut k.
JobsOfCuts(expenses, cuts) ==
    LET n == Len(cuts) + 1
        lo(k) == IF k = 1 THEN 1 ELSE cuts[k - 1] + 1
        hi(k) == IF k = n THEN Len(expenses) ELSE cuts[k]
    IN  [k \in 1..n |-> [expenses |-> SubSeq(expenses, lo(k), hi(k))]]

\* The job lists categorizeExpenses may be given: any number of jobs, each
\* with any expenses.
CatJobLists ==
    {<<>>} \cup
    UNION {{JobsOfCuts(e, cuts) :
               cuts \in {c \in [1..(n - 1) -> 0..Len(e)] :
                            \A k \in 1..(n - 2) : c[k] <= c[k + 1]}} :
           e \in SeqsUpTo(CatExpenseSet, MaxCatExpenses), n \in 1..MaxCatJobs}

\* jobs.flatMap((job) => job.expenses)
RECURSIVE FlatMapExpenses(_)
FlatMapExpenses(jobList) ==
    IF jobList = <<>> THEN <<>>
    ELSE Head(jobList).expenses \o FlatMapExpenses(Tail(jobList))

\* The keys of categoryMap in the order they were set: the category of each
\* expense, the first time it is met.
RECURSIVE CategoryKeys(_)
CategoryKeys(expenses) ==
    IF expenses = <<>> THEN <<>>
    ELSE LET keys == CategoryKeys(SubSeq(expenses, 1, Len(expenses) - 1))
             category == GetCategoryFromDescription(expenses[Len(expenses)].description)
         IN  IF \E i \in 1..Len(keys) : keys[i] = category
             THEN keys ELSE Append(keys, category)

\* categoryMap.get(category): the expenses pushed under the key, in order.
CategoryExpenses(expenses, category) ==
    SelectSeq(expenses,
              LAMBDA e : GetCategoryFromDescription(e.description) = category)

\* x / y on exact numbers, kept as the pair of x and y.
Ratio(x, y) == <<x, y>>

\* The ExpenseCategory pushed for one entry of categoryMap.
CategoryEntry(categoryName, expenses, totalExpenses) ==
    LET amount == SumAmount(expenses)
        count == Len(expenses)
    IN  [name |-> categoryName,
         amount |-> amount,
         percentage |->
             IF totalExpenses > 0 THEN Ratio(amount * 100, totalExpenses) ELSE Ratio(0, 1),
         count |-> count,
         average |-> IF count > 0 THEN Ratio(amount, count) ELSE Ratio(0, 1),
         trend |-> CalculateTrend(expenses)]

\* Insertion of c after the categories whose amount is not less than its own.
RECURSIVE InsertByAmount(_, _)
InsertByAmount(sorted, c) ==
    IF sorted = <<>> THEN <<c>>
    ELSE IF c.amount - Head(sorted).amount > 0
         THEN <<c>> \o sorted
         ELSE <<Head(sorted)>> \o InsertByAmount(Tail(sorted), c)

\* categories.sort((a, b) => b.amount - a.amount): descending amounts, equal
\* amounts in the order given.
RECURSIVE SortByAmount(_)
SortByAmount(categories) ==
    IF categories = <<>> THEN <<>>
    ELSE InsertByAmount(SortByAmount(SubSeq(categories, 1, Len(categories) - 1)),
                        categories[Len(categories)])

\* BudgetAnalytics.categorizeExpenses
CategorizeExpenses(jobList) ==
    LET allExpenses == FlatMapExpenses(jobList)
        keys == CategoryKeys(allExpenses)
        totalExpenses == SumAmount(allExpenses)
    IN  SortByAmount(
            [i \in 1..Len(keys) |->
                CategoryEntry(keys[i], CategoryExpenses(allExpenses, keys[i]),
                              totalExpenses)])

\* A caller asks for the categories of the expenses of its jobs.
CallCategorizeExpenses ==
    /\ ~trendCall.made
    /\ trendCall' =
          [trendCall EXCEPT !.made = TRUE,
                            !.categories = CategorizeExpenses(trendCall.jobs)]
    /\ UNCHANGED <<coreVars, finVars, payCall, clock, seedLog, dispatched>>

\* The jobs categorizeExpenses is about to be called with.
InitCat ==
    /\ jobsItem = NullItem
    /\ clientsItem = NullItem
    /\ jobs = <<>>
    /\ loading = FALSE
    /\ error = Null
    /\ filter = "all"
    /\ ops = [s \in Slots |-> Idle]
    /\ finJob = NoScreenJob
    /\ figures = NoFigures
    /\ payCall = NoPayCall
    /\ trendCall \in
          {[made |-> FALSE, jobs |-> js, categories |-> <<>>] :
              js \in CatJobLists}
    /\ clock = 0
    /\ seedLog = <<>>
    /\ replaced = None
    /\ intent = IntentsOff
    /\ dispatched = 0

NextCat == CallCategorizeExpenses

SpecCat == InitCat /\ [][NextCat]_vars

(* ------------------------------- C21 ----------------------------------- *)

\* The rules in their fixed order: a category and its keywords.
CategoryRules ==
    <<[name |-> "Fuel",
       keywords |-> {<<"g", "a", "s">>,
                     <<"f", "u", "e", "l">>,
                     <<"g", "a", "s", "o", "l", "i", "n", "e">>}],
      [name |-> "Meals",
       keywords |-> {<<"f", "o", "o", "d">>,
                     <<"m", "e", "a", "l">>,
                     <<"l", "u", "n", "c", "h">>,
                     <<"d", "i", "n", "n", "e", "r">>}],
      [name |-> "Phone/Data",
       keywords |-> {<<"p", "h", "o", "n", "e">>,
                     <<"d", "a", "t", "a">>,
                     <<"c", "e", "l", "l", "u", "l", "a", "r">>,
                     <<"m", "o", "b", "i", "l", "e">>}],
      [name |-> "Parking & Tolls",
       keywords |-> {<<"p", "a", "r", "k", "i", "n", "g">>,
                     <<"t", "o", "l", "l">>,
                     <<"f", "e", "e">>}],
      [name |-> "Vehicle Maintenance",
       keywords |-> {<<"m", "a", "i", "n", "t", "e", "n", "a", "n", "c", "e">>,
                     <<"r", "e", "p", "a", "i", "r">>,
                     <<"o", "i", "l">>,
                     <<"t", "i", "r", "e">>}],
      [name |-> "Insurance & Licensing",
       keywords |-> {<<"i", "n", "s", "u", "r", "a", "n", "c", "e">>,
                     <<"r", "e", "g", "i", "s", "t", "r", "a", "t", "i", "o", "n">>,
                     <<"l", "i", "c", "e", "n", "s", "e">>}],
      [name |-> "Supplies & Equipment",
       keywords |-> {<<"s", "u", "p", "p", "l", "y">>,
                     <<"e", "q", "u", "i", "p", "m", "e", "n", "t">>,
                     <<"b", "a", "g">>,
                     <<"c", "h", "a", "r", "g", "e", "r">>}]>>

CategoryNames ==
    {CategoryRules[i].name : i \in 1..Len(CategoryRules)} \cup {"Other"}

\* The category of the first rule one of whose keywords the lower-cased
\* description contains, else Other.
FirstRuleCategory(description) ==
    LET lower == ToLowerCase(description)
        hits == {i \in 1..Len(CategoryRules) :
                    \E word \in CategoryRules[i].keywords : Includes(lower, word)}
    IN  IF hits = {} THEN "Other"
        ELSE CategoryRules[CHOOSE i \in hits : \A k \in hits : i <= k].name

\* The expenses of the jobs, each named by its job and its place in it.
ExpensePlaces(jobList) ==
    UNION {{<<j, i>> : i \in 1..Len(jobList[j].expenses)} : j \in 1..Len(jobList)}

\* The count the returned categories give for a category: 0 when it is not
\* among them.
RECURSIVE SumCount(_)
SumCount(categories) ==
    IF categories = <<>> THEN 0
    ELSE Head(categories).count + SumCount(Tail(categories))

CountGiven(categories, name) ==
    SumCount(SelectSeq(categories, LAMBDA c : c.name = name))

\* C21: categorizeExpenses partitions the expenses of the jobs: the count it
\* returns for each category (none returned twice) is the number of expenses
\* whose first matching rule, in the fixed order, is that category (Other
\* when no rule matches), so the counts sum to the number of expenses.
C21_CategoriesPartition ==
    trendCall.made =>
        LET js == trendCall.jobs
            cats == trendCall.categories
        IN  /\ \A i, k \in 1..Len(cats) : cats[i].name = cats[k].name => i = k
            /\ \A i \in 1..Len(cats) : cats[i].name \in CategoryNames
            /\ \A name \in CategoryNames :
                  CountGiven(cats, name) =
                      Cardinality({p \in ExpensePlaces(js) :
                          FirstRuleCategory(js[p[1]].expenses[p[2]].description)
                              = name})
            /\ SumCount(cats) = Cardinality(ExpensePlaces(js))

\* Two jobs, one with "Bag fee" and "Tip", the other with "LUNCH": one
\* expense each under Parking & Tolls, Other and Meals.
C21_Witness ==
    /\ trendCall.made
    /\ Len(trendCall.jobs) = 2
    /\ Len(trendCall.jobs[1].expenses) = 2
    /\ Len(trendCall.categories) = 3
    /\ \E i \in 1..3 :
          /\ trendCall.categories[i].name = "Parking & Tolls"
          /\ trendCall.categories[i].count = 1
    /\ \E i \in 1..3 : trendCall.categories[i].name = "Meals"
    /\ \E i \in 1..3 : trendCall.categories[i].name = "Other"

(* ------------------------------ selectors ------------------------------ *)

FilterSet == {"all", "active", "completed"}

\* A Job in memory, cut down to its identity and its status.
StatusJobT == [id : JobIdSet, status : JobStatusSet]

\* selectFilteredJobs
SelectFilteredJobs(js, f) ==
    CASE f = "active" ->
            SelectSeq(js, LAMBDA job : \/ job.status = "Quoted"
                                     \/ job.status = "Accepted"
                                     \/ job.status = "In-Progress")
      [] f = "completed" ->
            SelectSeq(js, LAMBDA job : \/ job.status = "Completed"
                                     \/ job.status = "Cancelled")
      [] OTHER -> js

\* selectActiveJobsCount
SelectActiveJobsCount(js) ==
    Len(SelectSeq(js, LAMBDA job : \/ job.status = "Quoted"
                                  \/ job.status = "Accepted"
                                  \/ job.status = "In-Progress"))

\* selectCompletedJobsCount
SelectCompletedJobsCount(js) ==
    Len(SelectSeq(js, LAMBDA job : job.status = "Completed"))

\* The setFilter reducer.
SetFilter ==
    \E f \in FilterSet :
        /\ filter' = f
        /\ UNCHANGED <<jobsItem, clientsItem, jobs, loading, error, ops, replaced,
                       intent, finVars, svcVars>>

\* A view reads the selectors off the state: the jobs under the current
\* filter and the two counts.
SelectJobs ==
    /\ figures' =
          [screen |-> "Jobs",
           filter |-> filter,
           filteredJobs |-> SelectFilteredJobs(jobs, filter),
           activeJobsCount |-> SelectActiveJobsCount(jobs),
           completedJobsCount |-> SelectCompletedJobsCount(jobs)]
    /\ UNCHANGED <<finJob, coreVars, svcVars>>

\* The slice holds some jobs, of any status.
InitSel ==
    /\ jobsItem = NullItem
    /\ clientsItem = NullItem
    /\ jobs \in SeqsUpTo(StatusJobT, MaxLen)
    /\ loading = FALSE
    /\ error = Null
    /\ filter = "all"
    /\ ops = [s \in Slots |-> Idle]
    /\ finJob = NoScreenJob
    /\ figures = NoFigures
    /\ ServicesIdle

NextSel ==
    \/ SetFilter
    \/ SelectJobs

SpecSel == InitSel /\ [][NextSel]_vars

(* ------------------------------- C22 ----------------------------------- *)

\* C22: the selectors classify the statuses one way, active = Quoted,
\* Accepted, In-Progress and completed = Completed, Cancelled: under the
\* filter active selectFilteredJobs returns as many jobs as
\* selectActiveJobsCount counts, and under the filter completed as many as
\* selectCompletedJobsCount counts.
C22_SelectorsAgree ==
    figures.screen = "Jobs" =>
        /\ figures.filter = "active" =>
               Len(figures.filteredJobs) = figures.activeJobsCount
        /\ figures.filter = "completed" =>
               Len(figures.filteredJobs) = figures.completedJobsCount

(* ------------------- async actions that overlap ------------------------ *)

\* Async jobs actions dispatched in one run.
MaxDispatched == 2

\* dispatch(thunk(arg)) at any time, other actions pending or not; the
\* dispatch is counted.
DispatchCounted(s, kind, fn, arg) ==
    /\ dispatched < MaxDispatched
    /\ ThunkPending(s, kind, fn, arg)
    /\ dispatched' = dispatched + 1

AnyFetchJobs ==
    \E s \in Slots : DispatchCounted(s, "fetchJobs", "getJobs", AnyJob)

\* createJob with an id that no stored job has at dispatch.
AnyCreateFresh ==
    \E s \in Slots, job \in JobT :
        /\ ~HasId(StoredJobs, job.id)
        /\ DispatchCounted(s, "createJob", "saveJob", job)

\* modifyJob and removeJob with an id that a stored job has at dispatch.
AnyModifyStored ==
    \E s \in Slots, job \in JobT :
        /\ HasId(StoredJobs, job.id)
        /\ DispatchCounted(s, "modifyJob", "updateJob", job)

AnyRemoveStored ==
    \E s \in Slots, id \in JobIdSet :
        /\ HasId(StoredJobs, id)
        /\ DispatchCounted(s, "removeJob", "deleteJob", [AnyJob EXCEPT !.id = id])

\* A storage call that returns without failing.
ReadSucceeds == \E s \in Slots : ReadReturns(s, TRUE)
WriteSucceeds == \E s \in Slots : WriteReturns(s, TRUE)

\* The app after its first fetch: the jobs in memory are the stored ones, and
\* no two of them share an id.
InitConc ==
    /\ jobsItem \in {NullItem} \cup
                    {JSONStringify(l) : l \in {k \in JobLists : NoDupIds(k)}}
    /\ clientsItem = NullItem
    /\ jobs = GetList(jobsItem, TRUE)
    /\ loading = FALSE
    /\ error = Null
    /\ filter = "all"
    /\ ops = [s \in Slots |-> Idle]
    /\ finJob = NoScreenJob
    /\ figures = NoFigures
    /\ ServicesIdle

\* Async jobs actions dispatched at any time, storage never failing.
NextConc ==
    \/ AnyFetchJobs
    \/ AnyCreateFresh
    \/ AnyModifyStored
    \/ AnyRemoveStored
    \/ ReadSucceeds
    \/ WriteSucceeds
    \/ Fulfilled
    \/ Rejected

SpecConc == InitConc /\ [][NextConc]_vars

\* The same, a storage call failing at times.
NextFaulty ==
    \/ AnyFetchJobs
    \/ AnyCreateFresh
    \/ AnyModifyStored
    \/ AnyRemoveStored
    \/ RepoRead
    \/ RepoWrite
    \/ Fulfilled
    \/ Rejected

SpecFaulty == InitConc /\ [][NextFaulty]_vars

(* ------------------------------- C23 ----------------------------------- *)

\* Two modifyJob actions, in slots s and t, changing jobs of different ids:
\* the updateJob of each has read the same collection, which holds both
\* ids, and neither storage call of either has failed.
ReadTheSame(s, t) ==
    /\ s # t
    /\ ops[s].kind = "modifyJob" /\ ops[s].fn = "updateJob" /\ ~ops[s].faulted
    /\ ops[t].kind = "modifyJob" /\ ops[t].fn = "updateJob" /\ ~ops[t].faulted
    /\ ops[s].pc \in {"write", "settle"}
    /\ ops[t].pc \in {"write", "settle"}
    /\ ops[s].read = ops[t].read
    /\ ops[s].arg.id # ops[t].arg.id
    /\ \E i \in 1..Len(ops[s].read) :
          ops[s].read[i].id = ops[s].arg.id /\ ops[s].read[i] # ops[s].arg
    /\ \E i \in 1..Len(ops[t].read) :
          ops[t].read[i].id = ops[t].arg.id /\ ops[t].read[i] # ops[t].arg

\* C23 (lost update): when two updates of different job ids have both read
\* the collection before either wrote, and the first has written, the
\* second one's write completes without error as well and leaves the
\* collection they read with the second writer's change only: the first
\* writer's job is back at its value before the update.
C23_LostUpdate ==
    [][\A s, t \in Slots :
          ( /\ ReadTheSame(s, t)
            /\ ops[s].pc = "settle" /\ ops[s].outcome = "fulfilled"
            /\ ops[t].pc = "write" /\ ops'[t].pc # "write" ) =>
              LET x == ops[t].read
                  now == GetList(jobsItem', TRUE)
              IN  /\ ops'[t].pc = "settle" /\ ops'[t].outcome = "fulfilled"
                  /\ Len(now) = Len(x)
                  /\ \A i \in 1..Len(x) :
                        now[i] = IF x[i].id = ops[t].arg.id
                                 THEN ops[t].arg ELSE x[i]
                  /\ \A i \in 1..Len(x) :
                        x[i].id = ops[s].arg.id => now[i] # ops[s].arg]_vars

\* Both updates have completed without error, each having read the two
\* stored jobs before the other wrote; what is stored is the second
\* writer's collection, in which the first writer's job is as it was read.
C23_Witness ==
    \E s, t \in Slots :
        /\ ReadTheSame(s, t)
        /\ ops[s].pc = "settle" /\ ops[s].outcome = "fulfilled"
        /\ ops[t].pc = "settle" /\ ops[t].outcome = "fulfilled"
        /\ Len(ops[t].read) = 2
        /\ StoredJobs = ops[t].list
        /\ StoredJobs # ops[s].list
        /\ \E i \in 1..2 :
              /\ StoredJobs[i].id = ops[s].arg.id
              /\ StoredJobs[i] = ops[s].read[i]
              /\ StoredJobs[i] # ops[s].arg

(* ------------------------------- C24 ----------------------------------- *)

\* C24: started with the jobs in memory equal to the stored ones, and no
\* storage call failing, whenever no async jobs action is pending (however
\* fetchJobs, createJob of fresh ids, modifyJob and removeJob of stored ids
\* were interleaved) the jobs in memory are the stored jobs, in their order.
C24_CacheStoreAgree ==
    InFlight = {} => jobs = StoredJobs

(* ------------------------------- C25 ----------------------------------- *)

\* C25: once modifyJob(job) is fulfilled the jobs in memory hold job under
\* job.id, whether a job with that id was in memory before or not (as when
\* the fallback has created the record in storage).
C25_ModifiedJobInMemory ==
    [][\A s \in Slots :
          (FulfilledStep(s) /\ ops[s].kind = "modifyJob") =>
              /\ HasId(jobs', ops[s].arg.id)
              /\ jobs'[FirstWithId(jobs', ops[s].arg.id)] = ops[s].arg]_vars

(* ------------------------------- C26 ----------------------------------- *)

\* Every storage call returns, with a value or with an error, and a promise
\* that has settled runs its reducer: each slot's steps are taken in time.
StorageReturns ==
    \A s \in Slots :
        /\ WF_vars(\E readOk \in BOOLEAN : ReadReturns(s, readOk))
        /\ WF_vars(\E writeOk \in BOOLEAN : WriteReturns(s, writeOk))
        /\ WF_vars(FulfilledIn(s))
        /\ WF_vars(RejectedIn(s))

SpecLive == InitConc /\ [][NextFaulty]_vars /\ StorageReturns

\* C26: when every storage call returns, each dispatched fetchJobs,
\* createJob, modifyJob and removeJob is in time fulfilled or rejected, and
\* loading, once true, returns to false.
C26_EverySettles ==
    /\ \A s \in Slots : (ops[s].pc # "idle") ~> (ops[s].pc = "idle")
    /\ loading ~> ~loading

\* All the actions of a run have settled, the last one rejected by a
\* failed write: loading is false again.
C26_Witness ==
    /\ dispatched = MaxDispatched
    /\ InFlight = {}
    /\ ~loading
    /\ error = SetItemError

(* ------------------------------- C27 ----------------------------------- *)

\* C27: started from a stored collection without duplicate ids, whatever
\* createJob (of ids not stored at dispatch), modifyJob and removeJob
\* actions run, interleaved in any way and with storage reads and writes
\* failing at times, no two stored jobs ever share an id.
C27_StoredIdsUnique ==
    NoDupIds(StoredJobs)

(* ------------------------------- C28 ----------------------------------- *)

\* C28: loading is true whenever an async jobs action (fetchJobs,
\* createJob, modifyJob, removeJob) has been dispatched and has not settled
\* yet, also when such actions overlap.
C28_LoadingWhilePending ==
    (\E s \in Slots : ops[s].kind \in Thunks /\ ops[s].pc # "idle") => loading

(* ------------------------------- C29 ----------------------------------- *)

\* C29: when a saveJob (the create of createJob) completes without error,
\* the stored collection is the one stored just before the call with the
\* new job appended, every earlier record present and unchanged, also
\* when the read inside the call failed or met unparsable data.
C29_CreateKeepsStored ==
    \A s \in Slots :
        ( /\ ops[s].kind = "saveJob"
          /\ ops[s].pc = "settle"
          /\ ops[s].outcome = "fulfilled" ) =>
            StoredJobs = Append(Before(s), ops[s].arg)

(* --------------------------- the job edit flow ------------------------- *)

\* The statuses chosen in the form.
FormStatusSet == {"Quoted", "Accepted"}

\* The jobs the edit screen may be opened with: route.params.job, a stored
\* job with its expenses and its payments.
EditJobSet ==
    [id : JobIdSet, jobName : JobNameSet, status : FormStatusSet,
     expenses : SeqsUpTo({[amount |-> 50, isReimbursable |-> FALSE]}, MaxExpenses),
     payments : SeqsUpTo({[amount |-> 100, status |-> "completed"]}, MaxPayments)]

\* const jobData: Job = {...}: the id of the existing job, the fields of the
\* form, the expenses of the existing job.
JobData(existingJob, jobName, status) ==
    [id |-> existingJob.id,
     jobName |-> jobName,
     status |-> status,
     expenses |-> existingJob.expenses]

\* AddEditJobScreen.handleSave when editing: the record built from the form
\* is handed to modifyJob, which the handler awaits.
HandleSave ==
    \E s \in Slots, jobName \in JobNameSet, status \in FormStatusSet :
        /\ InFlight = {}
        /\ DispatchThunk(s, "modifyJob", "updateJob",
                         JobData(finJob, jobName, status))

\* The edit screen is opened with the one job that is stored and in memory.
InitEdit ==
    /\ finJob \in EditJobSet
    /\ jobsItem = JSONStringify(<<finJob>>)
    /\ clientsItem = NullItem
    /\ jobs = <<finJob>>
    /\ loading = FALSE
    /\ error = Null
    /\ filter = "all"
    /\ ops = [s \in Slots |-> Idle]
    /\ figures = NoFigures
    /\ ServicesIdle

NextEdit ==
    \/ HandleSave
    \/ RepoRead
    \/ RepoWrite
    \/ Fulfilled
    \/ Rejected

SpecEdit == InitEdit /\ [][NextEdit]_vars

(* ------------------------------- C30 ----------------------------------- *)

\* job.payments || []
LedgerOf(job) == IF "payments" \in DOMAIN job THEN job.payments ELSE <<>>

\* C30: when the edit of a stored job has been saved (the modifyJob of the
\* record built from the form fulfilled, no storage call having failed),
\* the stored job has the id, the expenses and the payments ledger it had
\* before the edit: only the edited fields have changed.
C30_EditKeepsLedger ==
    \A s \in Slots :
        ( /\ ops[s].kind = "modifyJob"
          /\ ops[s].pc = "settle"
          /\ ops[s].outcome = "fulfilled"
          /\ ~ops[s].faulted
          /\ HasId(Before(s), ops[s].arg.id) ) =>
            LET old == Before(s)[FirstWithId(Before(s), ops[s].arg.id)]
                new == StoredJobs[FirstWithId(StoredJobs, ops[s].arg.id)]
            IN  /\ HasId(StoredJobs, ops[s].arg.id)
                /\ new.id = old.id
                /\ new.expenses = old.expenses
                /\ LedgerOf(new) = LedgerOf(old)

====
